---- MODULE Spec2Model ----
(***************************************************************************)
(* Model of crates/next-core/src/next_client_chunks/with_chunks.rs:        *)
(* the WithChunksAsset wrapper module and its WithChunksChunkItem, whose   *)
(* content() enumerates the chunk group of the wrapped module, rebases     *)
(* every chunk path against the server root and emits the generated text.  *)
(*                                                                         *)
(* Strings that the code inspects or transforms (paths, module ids) are    *)
(* sequences of one-character strings; the emitted text is one string.     *)
(***************************************************************************)
EXTENDS Integers, Sequences, FiniteSets, TLC

VARIABLES
    self_vc,         \* the WithChunksAssetVc cell: readable or not, and its value
    resolved_group,  \* what group.chunks() resolves to for the asset's own group
    item,            \* item[r]: the WithChunksChunkItem of run r (or NoItem)
    pc,              \* pc[r]: position of content() of run r
    loc,             \* loc[r]: the locals of content() of run r
    order,           \* order[r]: the chunk indices in the order their path()
                     \* resolved under the join, until content() returns
    out,             \* out[r]: what content() of run r returned
    last_call        \* the last operation called and, unless it is a content() of
                     \* the chunk item, what it returned

vars == <<self_vc, resolved_group, item, pc, loc, order, out, last_call>>

----------------------------------------------------------------------------
(* Bounds and input domains *)

MaxChunks == 3

PairMaxChunks == 2

Runs == {1, 2}

Modules == {"m1", "m2"}

Contexts == {"cA", "cB"}

Chunks == {"A", "Q", "X", "E1", "E2"}

Roots == {"root_r", "root_fs", "root_unreadable"}

AvailableAssets == {"avail"}

----------------------------------------------------------------------------
(* Option and Result values *)

None == [some |-> FALSE, val |-> <<>>]

Some(v) == [some |-> TRUE, val |-> v]

Ok(v) == [ok |-> TRUE, val |-> v, err |-> ""]

Err(e) == [ok |-> FALSE, val |-> <<>>, err |-> e]

RECURSIVE Cat(_)
Cat(s) == IF s = <<>> THEN "" ELSE Head(s) \o Cat(Tail(s))

Range(s) == {s[i] : i \in DOMAIN s}

InjSeqs(S, n) ==
    {s \in UNION {[1..k -> S] : k \in 0..n} :
        \A i, j \in DOMAIN s : s[i] = s[j] => i = j}

----------------------------------------------------------------------------
(* Collaborators: what the surrounding graph answers *)

\* c.path(): the absolute output path of a chunk, or a failure
ChunkPath(c) ==
    CASE c = "A"  -> Ok(<<"r", "/", "a">>)
      [] c = "Q"  -> Ok(<<"r", "/", "\"">>)
      [] c = "X"  -> Ok(<<"r", "x">>)
      [] c = "E1" -> Err("path(E1) failed")
      [] c = "E2" -> Err("path(E2) failed")

\* inner.server_root.await: the FileSystemPath value behind the handle
ReadServerRoot(h) ==
    CASE h = "root_r"  -> Ok(<<"r">>)
      [] h = "root_fs" -> Ok(<<>>)
      [] h = "root_unreadable" -> Err("server_root unreadable")

\* asset.as_chunk_item(context).id(): the module id of the wrapped module
ModuleId(m, context) ==
    CASE m = "m1" /\ context = "cA" -> Ok(<<"1">>)
      [] m = "m1" /\ context = "cB" -> Ok(<<"2", "\"">>)
      [] m = "m2" /\ context = "cA" -> Ok(<<"\\", "3">>)
      [] m = "m2" /\ context = "cB" -> Err("id() failed")

\* asset.ident(): the identity of a wrapped module
AssetIdent(m) ==
    CASE m = "m1" -> [path |-> "m1.js", modifiers |-> <<>>]
      [] m = "m2" -> [path |-> "m2.js", modifiers |-> <<"chunks">>]

\* AssetIdentVc::with_modifier
WithModifier(ident, m) == [ident EXCEPT !.modifiers = Append(@, m)]

\* ChunkGroupVc::from_asset: a chunk group is denoted by its four arguments
ChunkGroup_from_asset(a, context, available, availability_root) ==
    [asset |-> a, chunking_context |-> context,
     available_assets |-> available, current_availability_root |-> availability_root]

\* ChunkGroupReferenceVc::new
ChunkGroupReference_new(group) == [chunk_group |-> group]

\* EcmascriptChunkVc::new
EcmascriptChunk_new(context, placeable, available, availability_root) ==
    [context |-> context, main_entry |-> placeable,
     available_assets |-> available, current_availability_root |-> availability_root]

\* group.chunks(): the asset's own group resolves to resolved_group, the group of
\* the same module under the other chunking context to the reverse chunk list
GroupChunks(group) ==
    LET va == self_vc.val
        own == ChunkGroup_from_asset(va.asset, va.chunking_context,
                                     None, Some(va.asset))
    IN  IF group = own THEN resolved_group
        ELSE IF group.asset = va.asset /\ resolved_group.ok
             THEN Ok([i \in DOMAIN resolved_group.val |->
                        resolved_group.val[Len(resolved_group.val) + 1 - i]])
             ELSE Err("chunk group failed")

\* FileSystemPath::get_path_to: the target relative to root, None when the target
\* is not under root
StripPrefix(s, p) ==
    IF Len(s) >= Len(p) /\ SubSeq(s, 1, Len(p)) = p
    THEN Some(SubSeq(s, Len(p) + 1, Len(s)))
    ELSE None

get_path_to(root, target) ==
    LET rest == StripPrefix(target, root)
    IN  IF ~rest.some THEN None
        ELSE IF root = <<>> THEN rest
        ELSE IF rest.val # <<>> /\ Head(rest.val) = "/" THEN Some(Tail(rest.val))
        ELSE None

\* serde_json: a string as a JSON string literal
EscapeChar(c) ==
    IF c = "\"" THEN <<"\\", "\"">>
    ELSE IF c = "\\" THEN <<"\\", "\\">>
    ELSE <<c>>

RECURSIVE Escape(_)
Escape(s) == IF s = <<>> THEN <<>> ELSE EscapeChar(Head(s)) \o Escape(Tail(s))

JsonString(s) == <<"\"">> \o Escape(s) \o <<"\"">>

\* serde_json: Display of Value::Array of Value::String, compact
RECURSIVE JsonItems(_)
JsonItems(a) ==
    IF a = <<>> THEN <<>>
    ELSE IF Len(a) = 1 THEN JsonString(a[1])
    ELSE JsonString(a[1]) \o <<",">> \o JsonItems(Tail(a))

JsonArray(a) == <<"[">> \o JsonItems(a) \o <<"]">>

\* turbopack::ecmascript::utils::stringify_js of a module id
stringify_js(id) == JsonString(id)

----------------------------------------------------------------------------
(* with_chunks.rs: the pure parts *)

\* fn modifier()
modifier == "chunks"

\* The handle of the one WithChunksAsset cell (a WithChunksAssetVc)
WithChunksAssetVc == "WithChunksAssetVc"

\* Calling a &self function through the handle: the cell is read first, and a
\* failed read is the call's failure
ReadSelf == IF self_vc.ok THEN Ok(self_vc.val) ELSE Err(self_vc.err)

\* A with_chunks.rs whose ident() forgets the modifier
WithChunksAsset_ident_unmodified(self) == AssetIdent(self.asset)

\* WithChunksAsset::ident
WithChunksAsset_ident(self) == WithModifier(AssetIdent(self.asset), modifier)

\* A with_chunks.rs whose content() on the asset returns a value
WithChunksAsset_content_returns(self) == Ok("AssetContent")

\* WithChunksAsset::content: unimplemented!()
WithChunksAsset_content(self) == Err("panic: not implemented")

\* WithChunksAsset::references
WithChunksAsset_references(self) ==
    Ok(<<ChunkGroupReference_new(
            ChunkGroup_from_asset(self.asset, self.chunking_context,
                                  None, Some(self.asset)))>>)

\* WithChunksAsset::as_chunk
WithChunksAsset_as_chunk(vc, context, available_assets, current_availability_root) ==
    EcmascriptChunk_new(context, vc, available_assets, current_availability_root)

\* WithChunksAsset::as_chunk_item
WithChunksAsset_as_chunk_item(vc, context) == [context |-> context, inner |-> vc]

\* WithChunksAsset::get_exports
WithChunksAsset_get_exports(self) == "EcmascriptExports::Value"

\* WithChunksChunkItem::chunking_context
WithChunksChunkItem_chunking_context(self) == self.context

\* WithChunksChunkItem::asset_ident: self.inner.ident()
WithChunksChunkItem_asset_ident(self) ==
    IF ReadSelf.ok THEN Ok(WithChunksAsset_ident(ReadSelf.val)) ELSE ReadSelf

\* A with_chunks.rs whose chunk item declares the group of its own context
WithChunksChunkItem_references_own(self) ==
    IF ReadSelf.ok
    THEN Ok(<<ChunkGroupReference_new(
                ChunkGroup_from_asset(ReadSelf.val.asset, self.context,
                                      None, Some(ReadSelf.val.asset)))>>)
    ELSE ReadSelf

\* WithChunksChunkItem::references: self.inner.references()
WithChunksChunkItem_references(self) ==
    IF ReadSelf.ok THEN WithChunksAsset_references(ReadSelf.val) ELSE ReadSelf

\* A content() that lists the group of the chunk item's context
ContentGroup_of_item(self, inner) ==
    ChunkGroup_from_asset(inner.asset, self.context, None, Some(inner.asset))

\* content(): the chunk group whose chunks are listed
ContentGroup(self, inner) ==
    ChunkGroup_from_asset(inner.asset, inner.chunking_context,
                          None, Some(inner.asset))

\* A content() that resolves the module id under the chunk item's context
ContentIdContext_of_item(self, inner) == self.context

\* content(): the chunking context the wrapped module's id is resolved under
ContentIdContext(self, inner) == inner.chunking_context

\* TryJoinIterExt::try_join: the futures are joined as one unit; the first
\* failure ends the join with that failure, and otherwise the join is ready when
\* every future is, with the values in the order of the futures
Failures(results, ord) == {k \in DOMAIN ord : ~results[ord[k]].ok}

FirstFailure(results, ord) ==
    ord[CHOOSE k \in Failures(results, ord) :
            \A l \in Failures(results, ord) : k <= l]

try_join(results, ord) ==
    IF Failures(results, ord) # {}
    THEN Some(Err(results[FirstFailure(results, ord)].err))
    ELSE IF Range(ord) = DOMAIN results
    THEN Some(Ok([i \in DOMAIN results |-> results[i].val]))
    ELSE None

\* A content() that takes the paths as they complete
ChunkPaths_as_completed(chunks, ord) ==
    LET joined == try_join([i \in DOMAIN chunks |-> ChunkPath(chunks[i])], ord)
    IN  IF joined.some /\ joined.val.ok
        THEN Some(Ok([k \in DOMAIN ord |-> ChunkPath(chunks[ord[k]]).val]))
        ELSE joined

\* content(): chunks.iter().map(|c| c.path()).try_join()
ChunkPaths(chunks, ord) ==
    try_join([i \in DOMAIN chunks |-> ChunkPath(chunks[i])], ord)

\* A loop that inserts at the front
RECURSIVE ClientChunks_reversed(_, _)
ClientChunks_reversed(server_root, chunk_paths) ==
    IF chunk_paths = <<>> THEN <<>>
    ELSE LET path == get_path_to(server_root, Head(chunk_paths))
             rest == ClientChunks_reversed(server_root, Tail(chunk_paths))
         IN  IF path.some THEN rest \o <<path.val>> ELSE rest

\* A loop that pushes the chunk's own path when rebasing yields nothing
RECURSIVE ClientChunks_keep_all(_, _)
ClientChunks_keep_all(server_root, chunk_paths) ==
    IF chunk_paths = <<>> THEN <<>>
    ELSE LET path == get_path_to(server_root, Head(chunk_paths))
             rest == ClientChunks_keep_all(server_root, Tail(chunk_paths))
         IN  IF path.some THEN <<path.val>> \o rest
             ELSE <<Head(chunk_paths)>> \o rest

\* content(): the loop that fills client_chunks
RECURSIVE ClientChunks(_, _)
ClientChunks(server_root, chunk_paths) ==
    IF chunk_paths = <<>> THEN <<>>
    ELSE LET path == get_path_to(server_root, Head(chunk_paths))
             rest == ClientChunks(server_root, Tail(chunk_paths))
         IN  IF path.some THEN <<path.val>> \o rest ELSE rest

\* A format! whose two arguments are swapped
InnerCode_swapped(module_id, client_chunks) ==
    Cat(<<"__turbopack_esm__({\n  default: () => ">>
        \o JsonArray(client_chunks)
        \o <<",\n  chunks: () => chunks\n});\nconst chunks = ">>
        \o module_id
        \o <<";\n">>)

\* content(): the format! that builds inner_code
InnerCode(module_id, client_chunks) ==
    Cat(<<"__turbopack_esm__({\n  default: () => ">>
        \o module_id
        \o <<",\n  chunks: () => chunks\n});\nconst chunks = ">>
        \o JsonArray(client_chunks)
        \o <<";\n">>)

\* EcmascriptChunkItemContent { inner_code, ..Default::default() }
ItemContent(inner_code) == [inner_code |-> inner_code, rest |-> "Default::default()"]

----------------------------------------------------------------------------
(* State *)

NoItem == [made |-> FALSE, arg |-> "", val |-> [context |-> "", inner |-> ""]]

NoAsset == [asset |-> "", server_root |-> "", chunking_context |-> ""]

NoLocals ==
    [inner |-> NoAsset, group |-> None, chunks |-> <<>>, server_root |-> <<>>,
     client_chunks |-> <<>>, id_context |-> "", module_id |-> <<>>]

NoOut == [done |-> FALSE, res |-> Err("")]

NoCall == [op |-> "", ret |-> Err(""), consulted |-> {}]

Assets ==
    [asset : Modules, server_root : Roots, chunking_context : Contexts]

InitWith(max) ==
    /\ self_vc \in {[ok |-> TRUE, val |-> a, err |-> ""] : a \in Assets}
                   \cup {[ok |-> FALSE, val |-> a, err |-> "inner unreadable"] :
                            a \in Assets}
    /\ resolved_group \in {Ok(s) : s \in InjSeqs(Chunks, max)}
                          \cup {Err("chunk group failed")}
    /\ item = [r \in Runs |-> NoItem]
    /\ pc = [r \in Runs |-> "idle"]
    /\ loc = [r \in Runs |-> NoLocals]
    /\ order = [r \in Runs |-> <<>>]
    /\ out = [r \in Runs |-> NoOut]
    /\ last_call = NoCall

Init == InitWith(MaxChunks)

InitPair == InitWith(PairMaxChunks)

\* No content() is in flight: the caller is free to call something else
CallerIdle == \A r \in Runs : pc[r] \in {"idle", "ok", "err"}

\* What a &self function of the asset returns when called through the handle
OnSelf(ret) == IF ReadSelf.ok THEN ret ELSE Err(ReadSelf.err)

----------------------------------------------------------------------------
(* Operations of WithChunksAsset *)

Ident ==
    /\ CallerIdle
    /\ last_call' = [op |-> "WithChunksAsset::ident",
                     ret |-> OnSelf(Ok(WithChunksAsset_ident(self_vc.val))),
                     consulted |-> IF ReadSelf.ok THEN {"asset.ident", "modifier"}
                                   ELSE {}]
    /\ UNCHANGED <<self_vc, resolved_group, item, pc, loc, order, out>>

Content ==
    /\ CallerIdle
    /\ last_call' = [op |-> "WithChunksAsset::content",
                     ret |-> OnSelf(WithChunksAsset_content(self_vc.val)),
                     consulted |-> {}]
    /\ UNCHANGED <<self_vc, resolved_group, item, pc, loc, order, out>>

References ==
    /\ CallerIdle
    /\ last_call' = [op |-> "WithChunksAsset::references",
                     ret |-> OnSelf(WithChunksAsset_references(self_vc.val)),
                     consulted |-> IF ReadSelf.ok THEN {"ChunkGroupVc::from_asset"}
                                   ELSE {}]
    /\ UNCHANGED <<self_vc, resolved_group, item, pc, loc, order, out>>

AsChunk ==
    /\ CallerIdle
    /\ \E context \in Contexts,
          available_assets \in {None} \cup {Some(a) : a \in AvailableAssets},
          current_availability_root \in {None} \cup {Some(m) : m \in Modules} :
            last_call' = [op |-> "WithChunksAsset::as_chunk",
                          ret |-> Ok(WithChunksAsset_as_chunk(
                                        WithChunksAssetVc, context, available_assets,
                                        current_availability_root)),
                          consulted |-> {"EcmascriptChunkVc::new"}]
    /\ UNCHANGED <<self_vc, resolved_group, item, pc, loc, order, out>>

AsChunkItem(r) ==
    /\ ~item[r].made
    /\ \E context \in Contexts :
            item' = [item EXCEPT ![r] =
                        [made |-> TRUE, arg |-> context,
                         val |-> WithChunksAsset_as_chunk_item(WithChunksAssetVc,
                                                               context)]]
    /\ UNCHANGED <<self_vc, resolved_group, pc, loc, order, out, last_call>>

GetExports ==
    /\ CallerIdle
    /\ last_call' = [op |-> "WithChunksAsset::get_exports",
                     ret |-> OnSelf(Ok(WithChunksAsset_get_exports(self_vc.val))),
                     consulted |-> {}]
    /\ UNCHANGED <<self_vc, resolved_group, item, pc, loc, order, out>>

----------------------------------------------------------------------------
(* Operations of WithChunksChunkItem other than content() *)

ItemChunkingContext(r) ==
    /\ CallerIdle
    /\ item[r].made
    /\ last_call' = [op |-> "WithChunksChunkItem::chunking_context",
                     ret |-> Ok(WithChunksChunkItem_chunking_context(item[r].val)),
                     consulted |-> {}]
    /\ UNCHANGED <<self_vc, resolved_group, item, pc, loc, order, out>>

ItemAssetIdent(r) ==
    /\ CallerIdle
    /\ item[r].made
    /\ last_call' = [op |-> "WithChunksChunkItem::asset_ident",
                     ret |-> WithChunksChunkItem_asset_ident(item[r].val),
                     consulted |-> {"inner.ident"}]
    /\ UNCHANGED <<self_vc, resolved_group, item, pc, loc, order, out>>

ItemReferences(r) ==
    /\ CallerIdle
    /\ item[r].made
    /\ last_call' = [op |-> "WithChunksChunkItem::references",
                     ret |-> WithChunksChunkItem_references(item[r].val),
                     consulted |-> {"inner.references"}]
    /\ UNCHANGED <<self_vc, resolved_group, item, pc, loc, order, out>>

----------------------------------------------------------------------------
(* WithChunksChunkItem::content(), one action per await *)

\* An await's error leaves content() through `?`
Fail(r, e) ==
    /\ pc' = [pc EXCEPT ![r] = "err"]
    /\ out' = [out EXCEPT ![r] = [done |-> TRUE, res |-> Err(e)]]

\* content() is called (its result is out[r]); let inner = self.inner.await?
ContentReadInner(r) ==
    /\ pc[r] = "idle"
    /\ item[r].made
    /\ ~out[r].done
    /\ IF ReadSelf.ok
       THEN /\ loc' = [loc EXCEPT ![r].inner = ReadSelf.val]
            /\ pc' = [pc EXCEPT ![r] = "group"]
            /\ UNCHANGED out
       ELSE /\ Fail(r, ReadSelf.err)
            /\ UNCHANGED loc
    /\ last_call' = [op |-> "WithChunksChunkItem::content",
                     ret |-> Err("see out"), consulted |-> {}]
    /\ UNCHANGED <<self_vc, resolved_group, item, order>>

\* let group = ChunkGroupVc::from_asset(..); let chunks = group.chunks().await?
ContentAwaitChunks(r) ==
    /\ pc[r] = "group"
    /\ LET group == ContentGroup(item[r].val, loc[r].inner)
           chunks == GroupChunks(group)
       IN  IF chunks.ok
           THEN /\ loc' = [loc EXCEPT ![r].group = Some(group),
                                      ![r].chunks = chunks.val]
                /\ pc' = [pc EXCEPT ![r] = "root"]
                /\ UNCHANGED out
           ELSE /\ loc' = [loc EXCEPT ![r].group = Some(group)]
                /\ Fail(r, chunks.err)
    /\ UNCHANGED <<self_vc, resolved_group, item, order, last_call>>

\* let server_root = inner.server_root.await?
\* and the path() of every chunk is issued
ContentAwaitServerRoot(r) ==
    /\ pc[r] = "root"
    /\ LET server_root == ReadServerRoot(loc[r].inner.server_root)
       IN  IF server_root.ok
           THEN /\ loc' = [loc EXCEPT ![r].server_root = server_root.val]
                /\ pc' = [pc EXCEPT ![r] = "paths"]
                /\ UNCHANGED out
           ELSE /\ Fail(r, server_root.err)
                /\ UNCHANGED loc
    /\ UNCHANGED <<self_vc, resolved_group, item, order, last_call>>

\* One of the path() futures under the join completes
ChunkPathResolved(r) ==
    /\ pc[r] = "paths"
    /\ \E i \in DOMAIN loc[r].chunks \ Range(order[r]) :
            order' = [order EXCEPT ![r] = Append(@, i)]
    /\ UNCHANGED <<self_vc, resolved_group, item, pc, loc, out, last_call>>

\* A content() that drops the failed paths and goes on with the others
ContentJoinFailed_skips(r) ==
    /\ pc[r] = "paths"
    /\ Range(order[r]) = DOMAIN loc[r].chunks
    /\ \E i \in DOMAIN loc[r].chunks : ~ChunkPath(loc[r].chunks[i]).ok
    /\ LET oks == SelectSeq([i \in DOMAIN loc[r].chunks |->
                                ChunkPath(loc[r].chunks[i])],
                            LAMBDA p : p.ok)
       IN  loc' = [loc EXCEPT ![r].client_chunks =
                        ClientChunks(loc[r].server_root,
                                     [i \in DOMAIN oks |-> oks[i].val])]
    /\ pc' = [pc EXCEPT ![r] = "id"]
    /\ UNCHANGED <<self_vc, resolved_group, item, order, out, last_call>>

\* .try_join().await? ends with a failure, which content() returns
ContentJoinFailed(r) ==
    /\ pc[r] = "paths"
    /\ LET joined == ChunkPaths(loc[r].chunks, order[r])
       IN  /\ joined.some
           /\ ~joined.val.ok
           /\ Fail(r, joined.val.err)
    /\ order' = [order EXCEPT ![r] = <<>>]
    /\ UNCHANGED <<self_vc, resolved_group, item, loc, last_call>>

\* .try_join().await? ends with every path, and the loop fills client_chunks
ContentJoined(r) ==
    /\ pc[r] = "paths"
    /\ LET joined == ChunkPaths(loc[r].chunks, order[r])
       IN  /\ joined.some
           /\ joined.val.ok
           /\ loc' = [loc EXCEPT ![r].client_chunks =
                            ClientChunks(loc[r].server_root, joined.val.val)]
    /\ pc' = [pc EXCEPT ![r] = "id"]
    /\ UNCHANGED <<self_vc, resolved_group, item, order, out, last_call>>

\* let module_id = stringify_js(&*inner.asset.as_chunk_item(..).id().await?)
\* and the content is built and returned
ContentEmit(r) ==
    /\ pc[r] = "id"
    /\ LET context == ContentIdContext(item[r].val, loc[r].inner)
           id == ModuleId(loc[r].inner.asset, context)
           module_id == stringify_js(id.val)
       IN  IF id.ok
           THEN /\ loc' = [loc EXCEPT ![r].id_context = context,
                                      ![r].module_id = module_id]
                /\ pc' = [pc EXCEPT ![r] = "ok"]
                /\ out' = [out EXCEPT ![r] =
                            [done |-> TRUE,
                             res |-> Ok(ItemContent(
                                        InnerCode(module_id,
                                                  loc[r].client_chunks)))]]
           ELSE /\ loc' = [loc EXCEPT ![r].id_context = context]
                /\ Fail(r, id.err)
    /\ order' = [order EXCEPT ![r] = <<>>]
    /\ UNCHANGED <<self_vc, resolved_group, item, last_call>>

ContentStep(r) ==
    \/ ContentReadInner(r)
    \/ ContentAwaitChunks(r)
    \/ ContentAwaitServerRoot(r)
    \/ ChunkPathResolved(r)
    \/ ContentJoinFailed(r)
    \/ ContentJoined(r)
    \/ ContentEmit(r)

----------------------------------------------------------------------------
(* Specifications *)

\* One chunk item; its content() is awaited by a caller that also calls the
\* other operations
Next ==
    \/ Ident
    \/ Content
    \/ References
    \/ AsChunk
    \/ GetExports
    \/ AsChunkItem(1)
    \/ ItemChunkingContext(1)
    \/ ItemAssetIdent(1)
    \/ ItemReferences(1)
    \/ ContentStep(1)

Spec == Init /\ [][Next]_vars

\* Two chunk items of the same asset, whose content() run concurrently
NextPair == \E r \in Runs : AsChunkItem(r) \/ ContentStep(r)

SpecPair == InitPair /\ [][NextPair]_vars

----------------------------------------------------------------------------
(* What the claims are stated in *)

\* The fields of the asset
Va == self_vc.val

\* The group (wrapped module, the asset's context, no availability set, wrapped
\* module as availability root)
DeclaredGroup ==
    [asset |-> Va.asset, chunking_context |-> Va.chunking_context,
     available_assets |-> [some |-> FALSE, val |-> <<>>],
     current_availability_root |-> [some |-> TRUE, val |-> Va.asset]]

\* The chunks of the resolved group and their paths, in the group's order
GroupList == resolved_group.val

PathOf(i) == ChunkPath(GroupList[i])

RootPath == ReadServerRoot(Va.server_root).val

\* The target lies below root: root is the file system's root, or the target is
\* root, a slash and more
IsDescendant(root, target) ==
    \/ root = <<>>
    \/ /\ Len(target) > Len(root)
       /\ \A i \in 1..Len(root) : target[i] = root[i]
       /\ target[Len(root) + 1] = "/"

\* Walking the group in its order up to chunk k: the relative path of every chunk
\* that rebasing gives one for
RECURSIVE Rebased(_)
Rebased(k) ==
    IF k = 0 THEN <<>>
    ELSE LET rel == get_path_to(RootPath, PathOf(k).val)
         IN  IF rel.some THEN Append(Rebased(k - 1), rel.val) ELSE Rebased(k - 1)

\* The text of a content with the given module id literal and chunk array
Text(literal, array) ==
    "__turbopack_esm__({\n"
    \o "  default: () => " \o Cat(literal) \o ",\n"
    \o "  chunks: () => chunks\n"
    \o "});\n"
    \o "const chunks = " \o Cat(array) \o ";\n"

OwnModuleId == ModuleId(Va.asset, Va.chunking_context)

PathErrors == {ChunkPath(c).err : c \in {d \in Chunks : ~ChunkPath(d).ok}}

\* The failures content() can meet, in the order it awaits: the first stage that
\* fails, and at the join every failing path
FailingStage ==
    IF ~self_vc.ok THEN {self_vc.err}
    ELSE IF ~resolved_group.ok THEN {resolved_group.err}
    ELSE IF ~ReadServerRoot(Va.server_root).ok
         THEN {ReadServerRoot(Va.server_root).err}
    ELSE IF \E i \in DOMAIN GroupList : ~PathOf(i).ok
         THEN {PathOf(i).err : i \in {j \in DOMAIN GroupList : ~PathOf(j).ok}}
    ELSE IF ~OwnModuleId.ok THEN {OwnModuleId.err}
    ELSE {}

SameResult(a, b) ==
    /\ a.ok = b.ok
    /\ a.ok => a.val = b.val
    /\ ~a.ok => a.err = b.err

\* Two outcomes of content(): both fail or both succeed with the same content; two
\* failures are the same failure, or both are failures of a chunk's path
SameOutcome(a, b) ==
    /\ a.ok = b.ok
    /\ a.ok => a.val = b.val
    /\ ~a.ok => \/ a.err = b.err
                \/ a.err \in PathErrors /\ b.err \in PathErrors

\* Run r resolved the chunk group, every chunk path and the module id, with success
Resolved(r) ==
    /\ loc[r].group.some
    /\ GroupChunks(loc[r].group.val).ok
    /\ loc[r].id_context # ""
    /\ ModuleId(loc[r].inner.asset, loc[r].id_context).ok

----------------------------------------------------------------------------
(* Claims *)

\* C1: when the chunk group, every chunk path and the module id resolve,
\* content() succeeds and its chunks array is the walk of the resolved group in its
\* order, each path rebased against the server root and kept iff rebasing gives a
\* relative path: nothing outside the root, nothing lost, duplicated or reordered,
\* and no failure because of a chunk outside the root.
C1_ChunksAreRebasedGroup ==
    \A r \in Runs :
        /\ pc[r] \in {"id", "ok"} =>
                loc[r].client_chunks = Rebased(Len(GroupList))
        /\ Resolved(r) =>
                /\ out[r].done /\ out[r].res.ok
                /\ out[r].res.val.inner_code =
                        Text(stringify_js(OwnModuleId.val),
                             JsonArray(Rebased(Len(GroupList))))
        /\ out[r].done /\ ~out[r].res.ok => FailingStage # {}

C1_Witness ==
    /\ out[1].done /\ out[1].res.ok
    /\ Va.server_root = "root_r"
    /\ GroupList = <<"Q", "X", "A">>
    /\ loc[1].client_chunks = << <<"\"">>, <<"a">> >>

\* C2: when the resolution of the chunk group or of a chunk's path fails,
\* content() fails with that error and returns no text, wherever the failing chunk
\* stands in the group and in whatever order the paths resolve; a content() that
\* has returned stays returned.
C2_FailurePropagates ==
    \A r \in Runs :
        /\ out[r].done =>
                IF FailingStage = {}
                THEN out[r].res.ok
                ELSE /\ ~out[r].res.ok
                     /\ out[r].res.err \in FailingStage
                     /\ out[r].res.val = <<>>
        /\ pc[r] \in {"id", "ok"} =>
                /\ resolved_group.ok
                /\ \A i \in DOMAIN GroupList : PathOf(i).ok
        /\ out[r].done <=> pc[r] \in {"ok", "err"}

C2_Witness ==
    /\ out[1].done
    /\ GroupList = <<"A", "Q", "E2">>
    /\ out[1].res.err = "path(E2) failed"
    /\ out[1].res.val = <<>>

\* C3: content() of the asset fails on every call, whatever the asset's fields and
\* whatever has happened before, and consults nothing before it fails.
C3_AssetContentFails ==
    last_call.op = "WithChunksAsset::content" =>
        /\ ~last_call.ret.ok
        /\ last_call.consulted = {}

C3_Witness ==
    /\ last_call.op = "WithChunksAsset::content"
    /\ self_vc.ok
    /\ pc[1] = "ok"
    /\ last_call.ret.err = "panic: not implemented"

\* C4: references() of a chunk item equals references() of the asset it was made
\* from, whatever context it was made with, a failure included.
C4_ItemReferencesAreAssetReferences ==
    last_call.op = "WithChunksChunkItem::references" =>
        SameResult(last_call.ret, OnSelf(WithChunksAsset_references(Va)))

C4_Witness ==
    /\ last_call.op = "WithChunksChunkItem::references"
    /\ last_call.ret.ok
    /\ item[1].arg # Va.chunking_context

\* C5: references() of the asset declares one reference, to the chunk group of
\* (wrapped module, the asset's context, no availability set, wrapped module), and
\* content() lists the chunks of that same group.
C5_DeclaredGroupIsListedGroup ==
    /\ last_call.op = "WithChunksAsset::references" /\ last_call.ret.ok =>
            last_call.ret.val = <<[chunk_group |-> DeclaredGroup]>>
    /\ \A r \in Runs : loc[r].group.some => loc[r].group.val = DeclaredGroup

C5_Witness ==
    /\ last_call.op = "WithChunksAsset::references"
    /\ last_call.ret.ok
    /\ loc[1].group.some
    /\ item[1].arg # Va.chunking_context

\* C6: a successful content() emits at most as many chunks as the group has, and
\* as many iff every chunk's path is a descendant of the server root.
C6_CountBound ==
    \A r \in Runs :
        out[r].done /\ out[r].res.ok =>
            /\ Len(loc[r].client_chunks) <= Len(GroupList)
            /\ Len(loc[r].client_chunks) = Len(GroupList)
                    <=> \A i \in DOMAIN GroupList :
                            IsDescendant(RootPath, PathOf(i).val)

C6_Witness ==
    /\ out[1].done /\ out[1].res.ok
    /\ Len(GroupList) = 3
    /\ Len(loc[1].client_chunks) = 2

C8_IdentIsModified ==
    last_call.op = "WithChunksAsset::ident" /\ last_call.ret.ok =>
        /\ last_call.ret.val =
                [path |-> AssetIdent(Va.asset).path,
                 modifiers |-> AssetIdent(Va.asset).modifiers \o <<"chunks">>]
        /\ last_call.ret.val # AssetIdent(Va.asset)

C8_Witness ==
    /\ last_call.op = "WithChunksAsset::ident"
    /\ last_call.ret.ok
    /\ Va.asset = "m2"
    /\ last_call.ret.val.modifiers = <<"chunks", "chunks">>

\* C9: the content of a successful content() is the text of the generated module,
\* with the stringified module id of the wrapped module's chunk item and the JSON
\* array of the relative paths, and nothing else; the other fields are defaults.
C9_ExactText ==
    \A r \in Runs :
        out[r].done /\ out[r].res.ok =>
            /\ out[r].res.val =
                    [inner_code |-> Text(JsonString(OwnModuleId.val),
                                         JsonArray(loc[r].client_chunks)),
                     rest |-> "Default::default()"]
            /\ (/\ Va.asset = "m1" /\ Va.chunking_context = "cA"
                /\ Va.server_root = "root_r" /\ GroupList = <<"A", "Q">>)
                    => out[r].res.val.inner_code =
                        "__turbopack_esm__({\n  default: () => \"1\",\n  chunks: () => chunks\n});\nconst chunks = [\"a\",\"\\\"\"];\n"

C9_Witness ==
    /\ out[1].done /\ out[1].res.ok
    /\ Va.asset = "m1" /\ Va.chunking_context = "cA"
    /\ Va.server_root = "root_r" /\ GroupList = <<"A", "Q">>

\* C10: the context given to as_chunk_item is what chunking_context() returns, and
\* it does not reach the content: group and module id are resolved under the
\* asset's context, and two chunk items of one asset with different contexts have
\* the same content(), references() and asset_ident().
C10_ItemContextIsInert ==
    /\ \A r \in Runs :
        /\ item[r].made =>
                WithChunksChunkItem_chunking_context(item[r].val) = item[r].arg
        /\ loc[r].group.some =>
                loc[r].group.val.chunking_context = Va.chunking_context
        /\ loc[r].id_context # "" => loc[r].id_context = Va.chunking_context
    /\ \A r1, r2 \in Runs :
        /\ out[r1].done /\ out[r2].done =>
                SameOutcome(out[r1].res, out[r2].res)
        /\ item[r1].made /\ item[r2].made =>
                /\ SameResult(WithChunksChunkItem_references(item[r1].val),
                              WithChunksChunkItem_references(item[r2].val))
                /\ SameResult(WithChunksChunkItem_asset_ident(item[r1].val),
                              WithChunksChunkItem_asset_ident(item[r2].val))

C10_Witness ==
    /\ item[1].arg = "cA" /\ item[2].arg = "cB"
    /\ out[1].done /\ out[1].res.ok
    /\ out[2].done /\ out[2].res.ok
    /\ Va.chunking_context = "cB"

====
